---- MODULE Spec2Model ----
(***************************************************************************)
(* CommiTect CLI: the commit-message pipeline.                             *)
(*   - CommitCache (src/src/utils/cache.ts): a map from sha256(trim(s)) to *)
(*     an entry, persisted to one file, entries expiring after 30 days.    *)
(*   - generateCommitMessage (src/unnamed/part_001): cache lookup, up to   *)
(*     three requests to the remote endpoint with backoff, then the        *)
(*     heuristic fallback (analyzeDiff, determineIntent, generateMessage). *)
(*   - generateCommitMessage of src/src/services/llm.ts, lines 11-94: the  *)
(*     variant that throws when the attempts are exhausted (SpecLlm).      *)
(*   - SpecCache: the cache's operations called directly, with processes   *)
(*     that start anew from the file and a file that has been damaged.     *)
(*   - SpecPure: parseResponse, generateMessage and the cache key applied  *)
(*     to inputs drawn from bounded sets.                                  *)
(* Text is a sequence of one-character strings, so that trimming,          *)
(* splitting, prefix tests and lengths are computed as the code does.      *)
(* The clock counts units of 500 ms (TimeUnitMs).                          *)
(***************************************************************************)
EXTENDS Integers, Sequences, FiniteSets, TLC

VARIABLES now, cwd, diskOk, cache, file, pc, diff, summary, attempt, requests, last,
          delays, result, exit, heuristicCalls, writes, prev, calls, ticks,
          damage, input, output, other

vars == <<now, cwd, diskOk, cache, file, pc, diff, summary, attempt, requests, last,
          delays, result, exit, heuristicCalls, writes, prev, calls, ticks,
          damage, input, output, other>>

(***************************************************************************)
(* Bounds of the model.                                                    *)
(***************************************************************************)
MaxCalls == 2
MaxTicks == 2
MaxOps == 4
MaxFileCount == 3
MaxResponseLen == 72
MaxDiffLines == 2

(***************************************************************************)
(* Program constants.                                                      *)
(***************************************************************************)
TimeUnitMs == 500
CACHE_MAX_AGE == 30 * 24 * 60 * 60 * 2
maxRetries == 3
MaxMessageLen == 70
TruncatedLen == 67

None == [kind |-> "none"]
Absent == -1

(***************************************************************************)
(* Text.                                                                   *)
(***************************************************************************)
WS == {" ", "\n", "\t", "\r"}

RECURSIVE TrimLeft(_)
TrimLeft(s) ==
  IF s = <<>> THEN s
  ELSE IF Head(s) \in WS THEN TrimLeft(Tail(s)) ELSE s

RECURSIVE TrimRight(_)
TrimRight(s) ==
  IF s = <<>> THEN s
  ELSE IF s[Len(s)] \in WS THEN TrimRight(SubSeq(s, 1, Len(s) - 1)) ELSE s

Trim(s) == TrimRight(TrimLeft(s))

StartsWith(s, p) == Len(s) >= Len(p) /\ SubSeq(s, 1, Len(p)) = p

\* String.prototype.replace(p, ''): the first occurrence of p removed.
ReplaceFirst(s, p) ==
  LET hits == {i \in 1..(Len(s) - Len(p) + 1) : SubSeq(s, i, i + Len(p) - 1) = p}
  IN IF hits = {} THEN s
     ELSE LET i == CHOOSE j \in hits : \A k \in hits : j <= k
          IN SubSeq(s, 1, i - 1) \o SubSeq(s, i + Len(p), Len(s))

\* String.prototype.split('\n'): the lines of s; the empty text has one empty line.
RECURSIVE SplitLines(_)
SplitLines(s) ==
  LET nl == {i \in 1..Len(s) : s[i] = "\n"}
  IN IF nl = {} THEN <<s>>
     ELSE LET i == CHOOSE j \in nl : \A k \in nl : j <= k
          IN <<SubSeq(s, 1, i - 1)>> \o SplitLines(SubSeq(s, i + 1, Len(s)))

RECURSIVE Rep(_, _)
Rep(c, n) == IF n = 0 THEN <<>> ELSE <<c>> \o Rep(c, n - 1)

DigitChar(d) == CASE d = 0 -> "0" [] d = 1 -> "1" [] d = 2 -> "2" [] d = 3 -> "3"
                  [] d = 4 -> "4" [] d = 5 -> "5" [] d = 6 -> "6" [] d = 7 -> "7"
                  [] d = 8 -> "8" [] d = 9 -> "9"

\* The decimal text of a non-negative integer, as a template literal prints it.
RECURSIVE Digits(_)
Digits(n) == IF n < 10 THEN <<DigitChar(n)>> ELSE Digits(n \div 10) \o <<DigitChar(n % 10)>>

IntentLabel == <<"I","n","t","e","n","t",":">>
MessageLabel == <<"M","e","s","s","a","g","e",":">>
Ellipsis == <<".",".",".">>

I_BugFix == <<"B","u","g"," ","F","i","x">>
I_Feature == <<"F","e","a","t","u","r","e">>
I_Refactor == <<"R","e","f","a","c","t","o","r">>
I_Test == <<"T","e","s","t">>
I_Documentation == <<"D","o","c","u","m","e","n","t","a","t","i","o","n">>
I_Style == <<"S","t","y","l","e">>
I_Chore == <<"C","h","o","r","e">>
I_Update == <<"U","p","d","a","t","e">>

S_fixFailingTests == <<"f","i","x"," ","f","a","i","l","i","n","g"," ","t","e","s","t","s">>
S_fixIssues == <<"f","i","x"," ","i","s","s","u","e","s">>
S_in == <<" ","i","n"," ">>
S_sp == <<" ">>
S_file == <<"f","i","l","e">>
\* S_files without the plural.
S_filesSingular == <<"f","i","l","e">>
S_files == <<"f","i","l","e","s">>
S_addEndpoints == <<"a","d","d"," ","n","e","w"," ","A","P","I"," ","e","n","d","p","o","i","n","t","s">>
S_addComponents == <<"a","d","d"," ","n","e","w"," ","c","o","m","p","o","n","e","n","t","s">>
S_addFunctionality == <<"a","d","d"," ","n","e","w"," ","f","u","n","c","t","i","o","n","a","l","i","t","y">>
S_to == <<" ","t","o"," ">>
S_implementFeatures == <<"i","m","p","l","e","m","e","n","t"," ","n","e","w"," ","f","e","a","t","u","r","e","s">>
S_restructure == <<"r","e","s","t","r","u","c","t","u","r","e"," ","c","o","d","e">>
S_removeUnused == <<"r","e","m","o","v","e"," ","u","n","u","s","e","d"," ","c","o","d","e">>
S_from == <<" ","f","r","o","m"," ">>
S_refactorCode == <<"r","e","f","a","c","t","o","r"," ","c","o","d","e">>
S_tests == <<"a","d","d","/","u","p","d","a","t","e"," ","t","e","s","t","s">>
S_updateDeps == <<"u","p","d","a","t","e"," ","d","e","p","e","n","d","e","n","c","i","e","s">>
S_updateConfigFiles == <<"u","p","d","a","t","e"," ","c","o","n","f","i","g","u","r","a","t","i","o","n"," ","f","i","l","e","s">>
S_updateProjectConfig == <<"u","p","d","a","t","e"," ","p","r","o","j","e","c","t"," ","c","o","n","f","i","g","u","r","a","t","i","o","n">>
S_formatAndStyle == <<"f","o","r","m","a","t"," ","a","n","d"," ","s","t","y","l","e">>
S_code == <<" ","c","o","d","e">>
S_updateDocs == <<"u","p","d","a","t","e"," ","d","o","c","u","m","e","n","t","a","t","i","o","n">>
S_update == <<"u","p","d","a","t","e">>

(***************************************************************************)
(* parseResponse: the `Intent:` and `Message:` lines of the payload.       *)
(***************************************************************************)
ParseFail == [ok |-> FALSE]

\* ScanLines with the values taken as they follow the label, not trimmed.
RECURSIVE ScanLinesNoTrim(_, _, _)
ScanLinesNoTrim(lines, intent, message) ==
  IF lines = <<>> THEN [intent |-> intent, message |-> message]
  ELSE LET line == Head(lines)
       IN IF StartsWith(line, IntentLabel)
          THEN ScanLinesNoTrim(Tail(lines), ReplaceFirst(line, IntentLabel), message)
          ELSE IF StartsWith(line, MessageLabel)
          THEN ScanLinesNoTrim(Tail(lines), intent, ReplaceFirst(line, MessageLabel))
          ELSE ScanLinesNoTrim(Tail(lines), intent, message)

RECURSIVE ScanLines(_, _, _)
ScanLines(lines, intent, message) ==
  IF lines = <<>> THEN [intent |-> intent, message |-> message]
  ELSE LET line == Head(lines)
       IN IF StartsWith(line, IntentLabel)
          THEN ScanLines(Tail(lines), Trim(ReplaceFirst(line, IntentLabel)), message)
          ELSE IF StartsWith(line, MessageLabel)
          THEN ScanLines(Tail(lines), intent, Trim(ReplaceFirst(line, MessageLabel)))
          ELSE ScanLines(Tail(lines), intent, message)

\* Truncate that returns every message whole.
TruncateNone(message) == message

\* Truncate that keeps the end of a long message, not its start.
TruncateKeepsEnd(message) ==
  IF Len(message) > MaxMessageLen
  THEN SubSeq(message, Len(message) - TruncatedLen + 1, Len(message)) \o Ellipsis
  ELSE message

\* Truncate that cuts a long message one character shorter.
TruncateShorter(message) ==
  IF Len(message) > MaxMessageLen
  THEN SubSeq(message, 1, TruncatedLen - 1) \o Ellipsis
  ELSE message

Truncate(message) ==
  IF Len(message) > MaxMessageLen
  THEN SubSeq(message, 1, TruncatedLen) \o Ellipsis
  ELSE message

parseResponse(response) ==
  LET got == ScanLines(SplitLines(Trim(response)), <<>>, <<>>)
  IN IF got.intent = <<>> \/ got.message = <<>>
     THEN ParseFail
     ELSE [ok |-> TRUE, intent |-> got.intent, message |-> Truncate(got.message)]

\* `!data || !data.intent`: an absent body, a body without the field, or an
\* empty string in it.
ValidBody(data) == data.present /\ data.hasIntent /\ data.intent # <<>>

(***************************************************************************)
(* Diff text.  A diff is its lines, each a marker ("diff" for a            *)
(* `diff --git a/P b/P` header, whose text is the path P; "+", "-", " "    *)
(* for added, removed and context lines) and the text after the marker,    *)
(* and `pad`: whether whitespace surrounds the text (a trailing newline).  *)
(* The regular expressions of analyzeDiff are tabulated for the line texts *)
(* and paths below: LinePatterns(t) and PathPatterns(p) are the patterns   *)
(* of part_001 that match that text.                                       *)
(***************************************************************************)
Vocabulary == {"bugFix", "testFix", "refactor", "style"}

LinePatterns(text) ==
  CASE text = "" -> {"trivial"}
    [] text = "}" -> {"trivial"}
    [] text = "  total = count + 1;" -> {}
    [] text = "  // fix crash on empty input" -> {"bugFix", "comment"}
    [] text = "  // fix the failing test" -> {"bugFix", "testFix", "comment"}
    [] text = "export function parse(s) {" -> {"newFunction"}
    [] text = "export function Button() {" -> {"newFunction", "componentShape"}
    [] text = "export function cleanup() {" -> {"newFunction", "refactor"}
    [] text = "export class Parser {" -> {"newClass"}
    [] text = "router.get('/users', list);" -> {"endpoint"}
    [] text = "@Get('/users')" -> {"decorator"}
    [] text = "  // refactor helper" -> {"refactor", "comment"}
    [] text = "  // run prettier" -> {"style", "comment"}
    [] text = "-- legacy table" -> {"dashdash"}
    [] text = "++counter;" -> {"plusplus"}
    [] OTHER -> {}

PathPatterns(path) ==
  CASE path = "src/app.ts" -> {}
    [] path = "README.md" -> {"docs"}
    [] path = "src/app.test.ts" -> {"test"}
    [] path = "config.yml" -> {"config"}
    [] path = "package.json" -> {"config", "dependency"}
    [] path = "requirements.txt" -> {"docs", "dependency"}
    [] path = "src/App.tsx" -> {"jsx"}
    [] path = "src/fix.ts" -> {"bugFix"}
    [] OTHER -> {}

Range(s) == {s[i] : i \in DOMAIN s}

\* The vocabulary patterns are tested on the whole diff: headers, context,
\* added and removed lines alike.
LineVocabulary(l) ==
  IF l.sign = "diff" THEN PathPatterns(l.text) \cap Vocabulary
  ELSE LinePatterns(l.text) \cap Vocabulary

\* matchesAny with the patterns tested on the added and removed lines only.
matchesAnyChangedLine(pattern, d) ==
  \E l \in Range(d.lines) : l.sign \in {"+", "-"} /\ pattern \in LineVocabulary(l)

matchesAny(pattern, d) == \E l \in Range(d.lines) : pattern \in LineVocabulary(l)

extractFilesFromDiff(d) == {l.text : l \in {x \in Range(d.lines) : x.sign = "diff"}}

\* IsAddedLine that takes the context lines for added ones too.
IsAddedLineOrContext(l) == l.sign \in {"+", " "} /\ "plusplus" \notin LinePatterns(l.text)

\* l.startsWith('+') && !l.startsWith('+++')
IsAddedLine(l) == l.sign = "+" /\ "plusplus" \notin LinePatterns(l.text)
\* l.startsWith('-') && !l.startsWith('---')
IsRemovedLine(l) == l.sign = "-" /\ "dashdash" \notin LinePatterns(l.text)

AddedLines(d) == SelectSeq(d.lines, IsAddedLine)
RemovedLines(d) == SelectSeq(d.lines, IsRemovedLine)

\* isTrivialWhitespace that takes no line for trivial.
isTrivialWhitespaceNever(lines) == lines = <<>>

isTrivialWhitespace(lines) == \A l \in Range(lines) : "trivial" \in LinePatterns(l.text)

NoSummary == [present |-> FALSE, total |-> Absent, renamed |-> Absent]

\* summary.renamed ?? 0
RenamedOf(s) == IF s.present /\ s.renamed # Absent THEN s.renamed ELSE 0

analyzeDiff(d, s) ==
  LET files == extractFilesFromDiff(d)
      addedLines == AddedLines(d)
      removedLines == RemovedLines(d)
      additions == Len(addedLines)
      deletions == Len(removedLines)
      someAdded(p) == \E l \in Range(addedLines) : p \in LinePatterns(l.text)
      someFile(p) == \E f \in files : p \in PathPatterns(f)
      hasTestChange == someFile("test")
  IN [hasBugFix |-> matchesAny("bugFix", d),
      hasTestFix |-> hasTestChange /\ matchesAny("testFix", d),
      hasNewFunction |-> someAdded("newFunction"),
      hasNewClass |-> someAdded("newClass"),
      hasNewEndpoint |-> someAdded("endpoint")
                         \/ (\E l \in Range(d.lines) :
                               l.sign = "+" /\ "decorator" \in LinePatterns(l.text)),
      hasNewComponent |-> someFile("jsx") /\ someAdded("componentShape"),
      hasRefactor |-> matchesAny("refactor", d),
      hasRename |-> RenamedOf(s) > 0,
      hasMovedCode |-> RenamedOf(s) > 0 /\ additions > 0 /\ deletions > 0,
      hasDocsChange |-> someFile("docs"),
      hasCommentChange |-> someAdded("comment"),
      hasTestChange |-> hasTestChange,
      hasDeletions |-> deletions > 0,
      hasStyleChange |-> matchesAny("style", d),
      hasWhitespaceOnly |-> additions + deletions > 0
                            /\ isTrivialWhitespace(addedLines \o removedLines),
      hasConfigChange |-> someFile("config"),
      hasDependencyChange |-> someFile("dependency"),
      additions |-> additions,
      deletions |-> deletions,
      hasChanges |-> additions + deletions > 0]

\* determineIntent with the test of line 282 before that of line 281.
determineIntentDocsBeforeTest(a) ==
  IF ~a.hasChanges THEN I_Chore
  ELSE IF a.hasBugFix \/ a.hasTestFix THEN I_BugFix
  ELSE IF a.hasDocsChange THEN I_Documentation
  ELSE IF a.hasTestChange /\ ~a.hasBugFix THEN I_Test
  ELSE IF a.hasRefactor \/ a.hasMovedCode \/ a.deletions > a.additions * 2 THEN I_Refactor
  ELSE IF a.hasNewFunction \/ a.hasNewClass \/ a.hasNewComponent \/ a.hasNewEndpoint
       THEN I_Feature
  ELSE IF a.hasDependencyChange \/ a.hasConfigChange THEN I_Chore
  ELSE IF a.hasStyleChange \/ a.hasWhitespaceOnly THEN I_Style
  ELSE I_Update

determineIntent(a) ==
  IF ~a.hasChanges THEN I_Chore
  ELSE IF a.hasBugFix \/ a.hasTestFix THEN I_BugFix
  ELSE IF a.hasTestChange /\ ~a.hasBugFix THEN I_Test
  ELSE IF a.hasDocsChange THEN I_Documentation
  ELSE IF a.hasRefactor \/ a.hasMovedCode \/ a.deletions > a.additions * 2 THEN I_Refactor
  ELSE IF a.hasNewFunction \/ a.hasNewClass \/ a.hasNewComponent \/ a.hasNewEndpoint
       THEN I_Feature
  ELSE IF a.hasDependencyChange \/ a.hasConfigChange THEN I_Chore
  ELSE IF a.hasStyleChange \/ a.hasWhitespaceOnly THEN I_Style
  ELSE I_Update

generateMessage(a, intent, s) ==
  LET fileCount == IF s.present THEN s.total ELSE Absent
      hasFileCount == fileCount # Absent /\ fileCount > 0
      fileWord == IF fileCount = 1 THEN S_file ELSE S_files
      counted(head, prep) == head \o prep \o Digits(fileCount) \o S_sp \o fileWord
      withCount(head, prep, bare) == IF hasFileCount THEN counted(head, prep) ELSE bare
  IN CASE intent = I_BugFix ->
            IF a.hasTestFix
            THEN withCount(S_fixFailingTests, S_in, S_fixFailingTests)
            ELSE withCount(S_fixIssues, S_in, S_fixIssues)
       [] intent = I_Feature ->
            IF a.hasNewEndpoint THEN S_addEndpoints
            ELSE IF a.hasNewComponent THEN S_addComponents
            ELSE IF a.hasNewClass \/ a.hasNewFunction
                 THEN withCount(S_addFunctionality, S_to, S_addFunctionality)
            ELSE withCount(S_implementFeatures, S_in, S_implementFeatures)
       [] intent = I_Refactor ->
            IF a.hasMovedCode THEN withCount(S_restructure, S_in, S_restructure)
            ELSE IF a.deletions > a.additions * 2
                 THEN withCount(S_removeUnused, S_from, S_removeUnused)
            ELSE withCount(S_refactorCode, S_in, S_refactorCode)
       [] intent = I_Test -> withCount(S_tests, S_in, S_tests)
       [] intent = I_Chore ->
            IF a.hasDependencyChange THEN S_updateDeps
            ELSE IF a.hasConfigChange THEN S_updateConfigFiles
            ELSE S_updateProjectConfig
       [] intent = I_Style ->
            withCount(S_formatAndStyle, S_sp, S_formatAndStyle \o S_code)
       [] intent = I_Documentation ->
            IF hasFileCount /\ fileCount # 1
            THEN counted(S_updateDocs, S_in)
            ELSE S_updateDocs
       [] OTHER ->
            withCount(S_update, S_sp, S_update \o S_code)

\* FallbackSuggestion with the summary dropped on the way to the classifier.
FallbackSuggestionNoSummary(d, s) ==
  LET analysis == analyzeDiff(d, NoSummary)
      intent == determineIntent(analysis)
  IN [intent |-> intent, message |-> generateMessage(analysis, intent, NoSummary)]

\* FallbackSuggestion that reads the clock: the summary counts only at time 0.
FallbackSuggestionByClock(d, s) ==
  LET used == IF now = 0 THEN s ELSE NoSummary
      analysis == analyzeDiff(d, used)
      intent == determineIntent(analysis)
  IN [intent |-> intent, message |-> generateMessage(analysis, intent, used)]

\* The suggestion generateFallbackCommit computes (its cache write is part
\* of the action that calls it).
FallbackSuggestion(d, s) ==
  LET analysis == analyzeDiff(d, s)
      intent == determineIntent(analysis)
  IN [intent |-> intent, message |-> generateMessage(analysis, intent, s)]

(***************************************************************************)
(* CommitCache.                                                            *)
(***************************************************************************)
\* Digests are collision-free: a digest is the algorithm and the text hashed.
Sha1(s) == [tag |-> "hex", alg |-> "sha1", of |-> s]
Sha256(s) == [tag |-> "hex", alg |-> "sha256", of |-> s]

\* String.prototype.trim on a diff text or on a hexadecimal digest (which has
\* no whitespace to strip).
TrimText(s) == IF s.tag = "diff" THEN [s EXCEPT !.pad = FALSE] ELSE s

hashDiff(s) == Sha256(TrimText(s))

EmptyMap == [h \in {} |-> None]
\* MapSet that keeps the entry a key already has.
MapSetKeepsFirst(c, h, e) ==
  [k \in (DOMAIN c) \cup {h} |-> IF k \in DOMAIN c THEN c[k] ELSE e]

MapSet(c, h, e) == [k \in (DOMAIN c) \cup {h} |-> IF k = h THEN e ELSE c[k]]
\* MapDelete that leaves the map as it is.
MapDeleteKeeps(c, h) == c

MapDelete(c, h) == [k \in (DOMAIN c) \ {h} |-> c[k]]

\* IsExpired with the entry expiring at the limit itself.
IsExpiredAtLimit(entry, t) == t - entry.timestamp >= CACHE_MAX_AGE

\* The validity test of CommitCache.get.
IsExpired(entry, t) == t - entry.timestamp > CACHE_MAX_AGE

\* CacheSet that keeps the new entry only when the file can be written.
CacheSetIfWritable(c, s, intent, message, t, f) ==
  IF diskOk
  THEN MapSet(c, hashDiff(s),
              [hash |-> hashDiff(s), intent |-> intent, message |-> message,
               timestamp |-> t, folder |-> f])
  ELSE c

\* The map after CommitCache.set(s, intent, message) at time t in folder f.
CacheSet(c, s, intent, message, t, f) ==
  MapSet(c, hashDiff(s),
         [hash |-> hashDiff(s), intent |-> intent, message |-> message,
          timestamp |-> t, folder |-> f])

\* Saved that merges: the entries of the file the map has no key for stay.
SavedMerged(c) ==
  IF diskOk
  THEN [h \in (DOMAIN c) \cup (DOMAIN file) |-> IF h \in DOMAIN c THEN c[h] ELSE file[h]]
  ELSE file

\* Saved that skips the write of an empty map.
SavedUnlessEmpty(c) == IF diskOk /\ DOMAIN c # {} THEN c ELSE file

\* saveCache: the file holds the map's entries, unless the write fails (the
\* directory is not writable), which is caught and only warned about.
Saved(c) == IF diskOk THEN c ELSE file

\* writeFileSync replaces the file whole: what was wrong with it is gone when
\* the write succeeds.
SavedDamage == IF diskOk THEN None ELSE damage

\* The records of a damaged file: JSON null, the object {}, and an object
\* with a timestamp and nothing else.
JsonNull == [json |-> "null"]
EmptyObject == [f \in {} |-> None]
OnlyTimestamp(t) == [timestamp |-> t]

\* entry.hash of a record without that field: the key undefined.
Undefined == [tag |-> "undefined"]
HashOf(e) == IF "hash" \in DOMAIN e THEN e.hash ELSE Undefined

\* What can be wrong with the file: it cannot be read or is not JSON, it is
\* JSON but no array, or one record of the array, the first or the last, is
\* none that saveCache writes.
BadRecord(r, first) == [kind |-> "record", record |-> r, first |-> first]
Damages(t) ==
  {[kind |-> "invalidJson"], [kind |-> "notArray"]}
  \cup {BadRecord(r, first) : r \in {JsonNull, EmptyObject, OnlyTimestamp(t)},
                              first \in BOOLEAN}

\* The entries of a map in the order of their timestamps then of their keys'
\* texts; saveCache writes them in the map's insertion order.
RECURSIVE ValuesIn(_, _)
ValuesIn(c, keys) ==
  IF keys = {} THEN <<>>
  ELSE LET h == CHOOSE k \in keys : \A j \in keys : c[k].timestamp <= c[j].timestamp
       IN <<c[h]>> \o ValuesIn(c, keys \ {h})

ValuesOf(c) == ValuesIn(c, DOMAIN c)

\* JSON.parse of the file: its array of records.
FileArray(f, dmg) ==
  IF dmg.kind = "record"
  THEN IF dmg.first THEN <<dmg.record>> \o ValuesOf(f) ELSE ValuesOf(f) \o <<dmg.record>>
  ELSE ValuesOf(f)

\* entries.forEach of loadCache: a record of null throws (the read of
\* .timestamp), a record without timestamp fails the comparison and is
\* skipped, any other record young enough is stored under its .hash.
RECURSIVE LoadEntries(_, _, _)
LoadEntries(entries, acc, t) ==
  IF entries = <<>> THEN [threw |-> FALSE, map |-> acc]
  ELSE LET entry == Head(entries)
       IN IF entry = JsonNull THEN [threw |-> TRUE, map |-> acc]
          ELSE IF "timestamp" \in DOMAIN entry /\ t - entry.timestamp < CACHE_MAX_AGE
          THEN LoadEntries(Tail(entries), MapSet(acc, HashOf(entry), entry), t)
          ELSE LoadEntries(Tail(entries), acc, t)

\* loadCache at time t: the map the constructor leaves.  JSON.parse throwing,
\* a value without forEach, and a throw amid the records all end in the catch
\* block, which clears the map.
loadCache(f, dmg, t) ==
  IF dmg.kind \in {"invalidJson", "notArray"} THEN EmptyMap
  ELSE LET r == LoadEntries(FileArray(f, dmg), EmptyMap, t)
       IN IF r.threw THEN EmptyMap ELSE r.map

(***************************************************************************)
(* generateCommitMessage.                                                  *)
(***************************************************************************)
\* DiffHash of the trimmed diff: not the text generateFallbackCommit hashes.
DiffHashTrimmed(d) == Sha1(TrimText(d))

\* part_001, line 41: the text handed to commitCache.get and commitCache.set.
DiffHash(d) == Sha1(d)
\* FallbackHash with the diff itself handed to the cache, as llm.ts does.
FallbackHashOfDiff(d) == d

\* part_001, line 380: the text generateFallbackCommit hands to commitCache.set.
FallbackHash(d) == Sha1(d)
\* llm.ts, line 13 and 43: that variant hands the diff itself to the cache.
DiffArgLlm(d) == d

LookupKey(d) == hashDiff(DiffHash(d))

IsAxios(err) == err.kind = "axios"
HasStatus(err) == IsAxios(err) /\ err.status # 0
IsClientError(err) == HasStatus(err) /\ err.status < 500 /\ err.status # 429
IsRetryCode(err) == IsAxios(err) /\ err.code \in {"ECONNREFUSED", "ETIMEDOUT"}

\* CatchDecision with the last test of the loop off by one.
CatchDecisionOffByOne(att, err) ==
  IF IsAxios(err) /\ err.status = 429
  THEN IF att < maxRetries THEN "retry" ELSE "stop"
  ELSE IF HasStatus(err) /\ err.status >= 500 /\ att < maxRetries THEN "retry"
  ELSE IF IsRetryCode(err) /\ att < maxRetries THEN "retry"
  ELSE IF IsClientError(err) THEN "stop"
  ELSE IF att <= maxRetries THEN "retry"
  ELSE "stop"

\* CatchDecision with HTTP 429 treated as the other client errors.
CatchDecisionRateLimitStops(att, err) ==
  IF IsAxios(err) /\ err.status = 429 THEN "stop"
  ELSE IF HasStatus(err) /\ err.status >= 500 /\ att < maxRetries THEN "retry"
  ELSE IF IsRetryCode(err) /\ att < maxRetries THEN "retry"
  ELSE IF IsClientError(err) THEN "stop"
  ELSE IF att < maxRetries THEN "retry"
  ELSE "stop"

\* CatchDecision with an error that is no axios error leaving the loop.
CatchDecisionMalformedStops(att, err) ==
  IF ~IsAxios(err) THEN "stop"
  ELSE IF err.status = 429
  THEN IF att < maxRetries THEN "retry" ELSE "stop"
  ELSE IF HasStatus(err) /\ err.status >= 500 /\ att < maxRetries THEN "retry"
  ELSE IF IsRetryCode(err) /\ att < maxRetries THEN "retry"
  ELSE IF IsClientError(err) THEN "stop"
  ELSE IF att < maxRetries THEN "retry"
  ELSE "stop"

\* CatchDecision without the test of line 112 for client errors.
CatchDecisionClientRetries(att, err) ==
  IF IsAxios(err) /\ err.status = 429
  THEN IF att < maxRetries THEN "retry" ELSE "stop"
  ELSE IF HasStatus(err) /\ err.status >= 500 /\ att < maxRetries THEN "retry"
  ELSE IF IsRetryCode(err) /\ att < maxRetries THEN "retry"
  ELSE IF att < maxRetries THEN "retry"
  ELSE "stop"

\* CatchDecision with a network error of an unlisted code leaving the loop.
CatchDecisionUnknownCodeStops(att, err) ==
  IF IsAxios(err) /\ err.status = 429
  THEN IF att < maxRetries THEN "retry" ELSE "stop"
  ELSE IF HasStatus(err) /\ err.status >= 500 /\ att < maxRetries THEN "retry"
  ELSE IF IsRetryCode(err) /\ att < maxRetries THEN "retry"
  ELSE IF IsClientError(err) THEN "stop"
  ELSE IF IsAxios(err) /\ ~HasStatus(err) /\ ~IsRetryCode(err) THEN "stop"
  ELSE IF att < maxRetries THEN "retry"
  ELSE "stop"

\* part_001, lines 79-121: what the catch block does with the error of attempt
\* att: "retry" (sleep, then the next attempt) or "stop" (leave the loop).
CatchDecision(att, err) ==
  IF IsAxios(err) /\ err.status = 429
  THEN IF att < maxRetries THEN "retry" ELSE "stop"
  ELSE IF HasStatus(err) /\ err.status >= 500 /\ att < maxRetries THEN "retry"
  ELSE IF IsRetryCode(err) /\ att < maxRetries THEN "retry"
  ELSE IF IsClientError(err) THEN "stop"
  ELSE IF att < maxRetries THEN "retry"
  ELSE "stop"

\* llm.ts, lines 47-93: the same block of the throwing variant.
CatchDecisionLlm(att, err) ==
  IF IsAxios(err) /\ err.status = 429
  THEN IF att < maxRetries THEN "retry" ELSE "throwRateLimit"
  ELSE IF HasStatus(err) /\ err.status >= 500 /\ att < maxRetries THEN "retry"
  ELSE IF IsRetryCode(err)
  THEN IF att < maxRetries THEN "retry" ELSE "throwNetwork"
  ELSE IF IsClientError(err) THEN "throwFailed"
  ELSE IF att < maxRetries THEN "retry"
  ELSE "throwFailed"

\* BackoffMs with the exponent counted from the first attempt as zero.
BackoffMsFromZero(att) == 500 * 2^(att - 1)

\* sleep(500 * Math.pow(2, attempt)), in milliseconds.
BackoffMs(att) == 500 * 2^att
\* sleep(1000 * attempt), in milliseconds.
BackoffMsLlm(att) == 1000 * att

(***************************************************************************)
(* Inputs: diffs, summaries, the outcomes of a request.                    *)
(***************************************************************************)
Line(sign, text) == [sign |-> sign, text |-> text]

DiffFix ==
  [tag |-> "diff", pad |-> FALSE,
   lines |-> <<Line("diff", "src/app.ts"),
               Line("-", "  total = count + 1;"),
               Line("+", "  // fix crash on empty input")>>]

DiffBlank ==
  [tag |-> "diff", pad |-> TRUE,
   lines |-> <<Line("diff", "config.yml"), Line("+", ""), Line("-", "}")>>]

SummaryTwo == [present |-> TRUE, total |-> 2, renamed |-> 0]

Inputs == {<<DiffFix, SummaryTwo>>, <<DiffFix, NoSummary>>, <<DiffBlank, NoSummary>>}

Folders == {"commitect"}

NL == <<"\n">>
P_good == IntentLabel \o <<" ">> \o I_Feature \o NL \o MessageLabel \o <<" ", "a", "d", "d", " ", "x">>
P_long == MessageLabel \o <<" ">> \o Rep("m", MaxMessageLen + 1) \o NL \o IntentLabel \o <<" ">> \o I_Refactor
P_noMessage == IntentLabel \o <<" ">> \o I_Feature
P_emptyValue == IntentLabel \o <<" ", " ">> \o NL \o MessageLabel \o <<" ", "a", "d", "d">>

Body(text) == [present |-> TRUE, hasIntent |-> TRUE, intent |-> text]
BodyAbsent == [present |-> FALSE, hasIntent |-> FALSE, intent |-> <<>>]
BodyNoField == [present |-> TRUE, hasIntent |-> FALSE, intent |-> <<>>]

Bodies == {BodyAbsent, BodyNoField, Body(P_good), Body(P_long),
           Body(P_noMessage), Body(P_emptyValue)}

HttpError(status, code) == [kind |-> "axios", status |-> status, code |-> code]
NetError(code) == [kind |-> "axios", status |-> 0, code |-> code]

Outcomes ==
  {[kind |-> "ok", data |-> b] : b \in Bodies}
  \cup {HttpError(429, "ERR_BAD_REQUEST"), HttpError(500, "ERR_BAD_RESPONSE"),
        HttpError(404, "ERR_BAD_REQUEST"),
        NetError("ECONNREFUSED"), NetError("ETIMEDOUT"), NetError("ENOTFOUND")}

\* parseResponse on each body of the pool that carries a payload.
Parsed == [b \in Bodies |-> parseResponse(b.intent)]

\* The attempt returns a suggestion: the body passes line 68 and parses.
Succeeds(o) == o.kind = "ok" /\ ValidBody(o.data) /\ Parsed[o.data].ok

\* What the catch block receives: the request's own error, or the Error thrown
\* at line 69 or by parseResponse.
Caught(o) == IF o.kind = "ok" THEN [kind |-> "error"] ELSE o

TimeSteps == {CACHE_MAX_AGE}

(***************************************************************************)
(* The state machine.                                                      *)
(***************************************************************************)
Init ==
  /\ now = 0
  /\ cwd \in Folders
  /\ diskOk \in BOOLEAN
  /\ cache = EmptyMap
  /\ file = EmptyMap
  /\ pc = "idle"
  /\ diff = None
  /\ summary = None
  /\ attempt = 0
  /\ requests = 0
  /\ last = None
  /\ delays = <<>>
  /\ result = None
  /\ exit = "none"
  /\ heuristicCalls = 0
  /\ writes = 0
  /\ prev = None
  /\ calls = 0
  /\ ticks = 0
  /\ damage = None
  /\ input = None
  /\ output = None
  /\ other = None

\* The lookup of lines 43-47 on the text arg, then, on a miss, the first
\* request (line 54), at which the function suspends.
Lookup(d, s, arg) ==
  LET h == hashDiff(arg)
  IN /\ pc = "idle"
     /\ calls < MaxCalls
     /\ calls' = calls + 1
     /\ diff' = d
     /\ summary' = s
     /\ last' = None
     /\ delays' = <<>>
     /\ heuristicCalls' = 0
     /\ writes' = 0
     /\ IF h \in DOMAIN cache /\ ~IsExpired(cache[h], now)
        THEN /\ result' = [intent |-> cache[h].intent, message |-> cache[h].message,
                           folder |-> cache[h].folder]
             /\ exit' = "cached"
             /\ pc' = "done"
             /\ attempt' = 0
             /\ requests' = 0
             /\ UNCHANGED <<cache, file>>
        ELSE /\ IF h \in DOMAIN cache
                THEN /\ cache' = MapDelete(cache, h)
                     /\ file' = Saved(cache')
                ELSE UNCHANGED <<cache, file>>
             /\ result' = None
             /\ exit' = "none"
             /\ pc' = "wait"
             /\ attempt' = 1
             /\ requests' = 1
     /\ output' = None
     /\ UNCHANGED <<now, cwd, diskOk, prev, ticks, damage, input, other>>

Invoke(d, s) == Lookup(d, s, DiffHash(d))

InvokeLlm(d) == Lookup(d, NoSummary, DiffArgLlm(d))

\* Lines 72-77: the parsed suggestion is stored under arg and returned.
ReturnRemote(o, arg) ==
  LET r == Parsed[o.data]
  IN /\ cache' = CacheSet(cache, arg, r.intent, r.message, now, cwd)
     /\ file' = Saved(cache')
     /\ writes' = writes + 1
     /\ result' = [intent |-> r.intent, message |-> r.message]
     /\ exit' = "remote"
     /\ pc' = "done"
     /\ UNCHANGED <<delays, heuristicCalls>>

\* StartBackoff that stores an unfinished entry for the diff before it sleeps.
StartBackoffStoresPending(ms) ==
  /\ pc' = "sleep"
  /\ delays' = Append(delays, ms)
  /\ cache' = CacheSet(cache, DiffHash(diff), <<>>, <<>>, now, cwd)
  /\ file' = Saved(cache')
  /\ UNCHANGED <<writes, result, exit, heuristicCalls>>

\* Lines 88, 97, 105, 118: the backoff is started.
StartBackoff(ms) ==
  /\ pc' = "sleep"
  /\ delays' = Append(delays, ms)
  /\ UNCHANGED <<cache, file, writes, result, exit, heuristicCalls>>

\* Lines 124-125 and 379-390: generateFallbackCommit.
ReturnFallback ==
  LET r == FallbackSuggestion(diff, summary)
  IN /\ cache' = CacheSet(cache, FallbackHash(diff), r.intent, r.message, now, cwd)
     /\ file' = Saved(cache')
     /\ writes' = writes + 1
     /\ heuristicCalls' = heuristicCalls + 1
     /\ result' = r
     /\ exit' = "fallback"
     /\ pc' = "done"
     /\ UNCHANGED delays

\* llm.ts, lines 59, 76, 93: the throwing variant raises to its caller.
Throw(what) ==
  /\ result' = [error |-> what]
  /\ exit' = "throw"
  /\ pc' = "done"
  /\ UNCHANGED <<cache, file, writes, delays, heuristicCalls>>

\* The request of the current attempt completes with outcome o.
Respond(o) ==
  /\ pc = "wait"
  /\ last' = o
  /\ IF Succeeds(o) THEN ReturnRemote(o, DiffHash(diff))
     ELSE IF CatchDecision(attempt, Caught(o)) = "retry"
          THEN StartBackoff(BackoffMs(attempt))
          ELSE ReturnFallback
  /\ UNCHANGED <<now, cwd, diskOk, diff, summary, attempt, requests, prev, calls, ticks,
                 damage, input, other, output>>

RespondLlm(o) ==
  /\ pc = "wait"
  /\ last' = o
  /\ IF Succeeds(o) THEN ReturnRemote(o, DiffArgLlm(diff))
     ELSE IF CatchDecisionLlm(attempt, Caught(o)) = "retry"
          THEN StartBackoff(BackoffMsLlm(attempt))
          ELSE Throw(CatchDecisionLlm(attempt, Caught(o)))
  /\ UNCHANGED <<now, cwd, diskOk, diff, summary, attempt, requests, prev, calls, ticks,
                 damage, input, other, output>>

\* The backoff timer fires: the loop continues with the next attempt's request.
Wake ==
  /\ pc = "sleep"
  /\ now' = now + (delays[Len(delays)] \div TimeUnitMs)
  /\ attempt' = attempt + 1
  /\ requests' = requests + 1
  /\ pc' = "wait"
  /\ UNCHANGED <<cwd, diskOk, cache, file, diff, summary, last, delays, result, exit,
                 heuristicCalls, writes, prev, calls, ticks, damage, input, other, output>>

\* The invocation is over and its locals are gone.
Leave ==
  /\ pc' = "idle"
  /\ diff' = None
  /\ summary' = None
  /\ attempt' = 0
  /\ requests' = 0
  /\ last' = None
  /\ delays' = <<>>
  /\ result' = None
  /\ exit' = "none"
  /\ heuristicCalls' = 0
  /\ writes' = 0
  /\ UNCHANGED <<now, cwd, diskOk, cache, file, calls, ticks, damage, input, other, output>>

\* The caller receives the suggestion.  prev remembers the call: its inputs,
\* the suggestion, and the time that suggestion was produced (now for a remote
\* or fallback result, the entry's timestamp for a cached one).
Return ==
  /\ pc = "done"
  /\ exit # "throw"
  /\ prev' = [diff |-> diff, summary |-> summary,
              out |-> [intent |-> result.intent, message |-> result.message],
              ts |-> IF exit = "cached" /\ LookupKey(diff) \in DOMAIN cache
                     THEN cache[LookupKey(diff)].timestamp ELSE now]
  /\ Leave

\* The command's catch block receives the error (commands/analyze.ts, 34-40).
Raise ==
  /\ pc = "done"
  /\ exit = "throw"
  /\ prev' = None
  /\ Leave

\* The process is killed while generateCommitMessage is suspended at the
\* request (line 54) or at a backoff delay (lines 88, 97, 105, 118): nothing
\* of it runs any more, its locals and its map are gone, and the next
\* process loads the file.  The output keeps what was interrupted.
Interrupt ==
  /\ pc \in {"wait", "sleep"}
  /\ output' = [op |-> "interrupt", key |-> LookupKey(diff), during |-> pc,
                attempt |-> attempt]
  /\ cache' = loadCache(file, damage, now)
  /\ prev' = None
  /\ pc' = "idle"
  /\ diff' = None
  /\ summary' = None
  /\ attempt' = 0
  /\ requests' = 0
  /\ last' = None
  /\ delays' = <<>>
  /\ result' = None
  /\ exit' = "none"
  /\ heuristicCalls' = 0
  /\ writes' = 0
  /\ UNCHANGED <<now, cwd, diskOk, file, calls, ticks, damage, input, other>>

\* ClearCache with the size read after the clear, not before it.
ClearCacheReportsAfter ==
  /\ pc = "idle"
  /\ prev' = None
  /\ IF DOMAIN cache = {}
     THEN /\ output' = [op |-> "clearCache", cleared |-> FALSE]
          /\ UNCHANGED <<cache, file, damage>>
     ELSE /\ cache' = EmptyMap
          /\ file' = Saved(cache')
          /\ damage' = SavedDamage
          /\ output' = [op |-> "clearCache", cleared |-> TRUE,
                        removed |-> Cardinality(DOMAIN cache')]
  /\ UNCHANGED <<now, cwd, diskOk, pc, diff, summary, attempt, requests, last, delays,
                 result, exit, heuristicCalls, writes, calls, ticks, input, other>>

\* clearCacheCommand: on an empty cache it only says so; else it clears, saves
\* and reports stats.size, the number of entries read before the clear.
ClearCache ==
  LET stats == [size |-> Cardinality(DOMAIN cache)]
  IN /\ pc = "idle"
     /\ prev' = None
     /\ IF stats.size = 0
        THEN /\ output' = [op |-> "clearCache", cleared |-> FALSE]
             /\ UNCHANGED <<cache, file, damage>>
        ELSE /\ cache' = EmptyMap
             /\ file' = Saved(cache')
             /\ damage' = SavedDamage
             /\ output' = [op |-> "clearCache", cleared |-> TRUE, removed |-> stats.size]
     /\ UNCHANGED <<now, cwd, diskOk, pc, diff, summary, attempt, requests, last, delays,
                    result, exit, heuristicCalls, writes, calls, ticks, input, other>>

\* Time passes between two commands.
Tick(dt) ==
  /\ pc = "idle"
  /\ ticks < MaxTicks
  /\ ticks' = ticks + 1
  /\ now' = now + dt
  /\ UNCHANGED <<cwd, diskOk, cache, file, pc, diff, summary, attempt, requests, last,
                 delays, result, exit, heuristicCalls, writes, prev, calls, damage, input,
                 other, output>>

Next ==
  \/ \E in \in Inputs : Invoke(in[1], in[2])
  \/ \E o \in Outcomes : Respond(o)
  \/ Wake
  \/ Return
  \/ ClearCache
  \/ \E dt \in TimeSteps : Tick(dt)

Spec == Init /\ [][Next]_vars

\* The same program with a process that can be killed while it is suspended.
NextInterrupt ==
  \/ \E in \in Inputs : Invoke(in[1], in[2])
  \/ \E o \in Outcomes : Respond(o)
  \/ Wake
  \/ Return
  \/ Interrupt
  \/ ClearCache
  \/ \E dt \in TimeSteps : Tick(dt)

SpecInterrupt == Init /\ [][NextInterrupt]_vars

NextLlm ==
  \/ \E in \in Inputs : InvokeLlm(in[1])
  \/ \E o \in Outcomes : RespondLlm(o)
  \/ Wake
  \/ Return
  \/ Raise
  \/ ClearCache
  \/ \E dt \in TimeSteps : Tick(dt)

SpecLlm == Init /\ [][NextLlm]_vars

(***************************************************************************)
(* CommitCache on its own: the operations of the cache called directly,    *)
(* processes that end and start (the constructor loading the file), and a  *)
(* cache file that something else has damaged.                             *)
(***************************************************************************)
\* The sort of getHistory: newest first.
RECURSIVE SortNewestFirst(_)
SortNewestFirst(es) ==
  IF es = {} THEN <<>>
  ELSE LET e == CHOOSE x \in es : \A y \in es : x.timestamp >= y.timestamp
       IN <<e>> \o SortNewestFirst(es \ {e})

getHistory(c) == SortNewestFirst({c[h] : h \in DOMAIN c})

getHistoryByFolder(c, folder) ==
  SortNewestFirst({e \in {c[h] : h \in DOMAIN c} :
                     "folder" \in DOMAIN e /\ e.folder = folder})

\* The texts generateCommitMessage hands to the cache, and a suggestion.
CacheTexts == {DiffHash(DiffFix), DiffHash(DiffBlank)}
Suggestion == [intent |-> I_Feature, message |-> <<"a", "d", "d", " ", "x">>]
WorkDirs == {"commitect", "other"}

\* A record as saveCache writes them, for a text the cache may hold already:
\* put into the file beside the program's own records it repeats a hash.
Repeated(s, t) ==
  [hash |-> hashDiff(s), intent |-> I_Refactor, message |-> <<"d", "u", "p">>,
   timestamp |-> t, folder |-> "commitect"]

\* What something other than the program can leave in the file at time t.
Rewrites(t) ==
  Damages(t) \cup {BadRecord(Repeated(s, t), first) : s \in CacheTexts, first \in BOOLEAN}

\* An operation on the cache that leaves the invocation's state alone.
CacheOp ==
  /\ pc = "idle"
  /\ UNCHANGED <<now, diskOk, pc, diff, summary, attempt, requests, last, delays, result,
                 exit, heuristicCalls, writes, prev, ticks, input, other>>

\* commitCache.set(s, intent, message).
Set(s) ==
  /\ CacheOp
  /\ calls < MaxOps
  /\ calls' = calls + 1
  /\ cache' = CacheSet(cache, s, Suggestion.intent, Suggestion.message, now, cwd)
  /\ file' = Saved(cache')
  /\ damage' = SavedDamage
  /\ output' = [op |-> "set", arg |-> s]
  /\ UNCHANGED cwd

\* commitCache.get(s).  The output keeps the local `entry` of line 89 beside
\* the value returned.
Get(s) ==
  LET hash == hashDiff(s)
      entry == IF hash \in DOMAIN cache THEN cache[hash] ELSE None
      returned(value) == [op |-> "get", arg |-> s, entry |-> entry, value |-> value]
  IN /\ CacheOp
     /\ IF entry = None
        THEN /\ output' = returned(None)
             /\ UNCHANGED <<cache, file, damage>>
        ELSE IF IsExpired(entry, now)
        THEN /\ cache' = MapDelete(cache, hash)
             /\ file' = Saved(cache')
             /\ damage' = SavedDamage
             /\ output' = returned(None)
        ELSE /\ output' = returned([intent |-> entry.intent, message |-> entry.message,
                                    folder |-> entry.folder])
             /\ UNCHANGED <<cache, file, damage>>
     /\ UNCHANGED <<cwd, calls>>

\* historyCommand: commitCache.getHistory().
GetHistory ==
  /\ CacheOp
  /\ output' = [op |-> "getHistory", value |-> getHistory(cache)]
  /\ UNCHANGED <<cwd, cache, file, damage, calls>>

\* commitCache.getHistoryByFolder(folder).
GetHistoryByFolder(folder) ==
  /\ CacheOp
  /\ output' = [op |-> "getHistoryByFolder", arg |-> folder,
                value |-> getHistoryByFolder(cache, folder)]
  /\ UNCHANGED <<cwd, cache, file, damage, calls>>

\* The process ends and another starts in directory dir: the constructor
\* loads the file into a new map.
Load(dir) ==
  /\ CacheOp
  /\ calls < MaxOps
  /\ calls' = calls + 1
  /\ cwd' = dir
  /\ cache' = loadCache(file, damage, now)
  /\ output' = [op |-> "load"]
  /\ UNCHANGED <<file, damage>>

\* Something other than the program rewrites the file.
Damage(dmg) ==
  /\ CacheOp
  /\ damage = None
  /\ calls < MaxOps
  /\ calls' = calls + 1
  /\ damage' = dmg
  /\ output' = None
  /\ UNCHANGED <<cwd, cache, file>>

NextCache ==
  \/ \E s \in CacheTexts : Set(s)
  \/ \E s \in CacheTexts : Get(s)
  \/ GetHistory
  \/ \E dir \in WorkDirs : GetHistoryByFolder(dir)
  \/ ClearCache
  \/ \E dir \in WorkDirs : Load(dir)
  \/ \E dmg \in Rewrites(now) : Damage(dmg)
  \/ \E dt \in TimeSteps : Tick(dt)

SpecCache == Init /\ [][NextCache]_vars

(***************************************************************************)
(* Two processes on one cache file.  cache is the map of the first, other  *)
(* the second process with its map (None while it has not started); each  *)
(* write of the file is one writeFileSync.                                 *)
(***************************************************************************)
\* A second process starts: its constructor loads the file into its own map.
OtherLoad ==
  /\ pc = "idle"
  /\ calls < MaxOps
  /\ calls' = calls + 1
  /\ other' = [kind |-> "process", cache |-> loadCache(file, damage, now)]
  /\ output' = [op |-> "otherLoad"]
  /\ UNCHANGED <<now, cwd, diskOk, cache, file, pc, diff, summary, attempt, requests,
                 last, delays, result, exit, heuristicCalls, writes, prev, ticks, damage,
                 input>>

\* commitCache.set(s, intent, message) in the second process.
OtherSet(s) ==
  /\ pc = "idle"
  /\ other # None
  /\ calls < MaxOps
  /\ calls' = calls + 1
  /\ other' = [other EXCEPT !.cache = CacheSet(other.cache, s, Suggestion.intent,
                                                 Suggestion.message, now, cwd)]
  /\ file' = Saved(other'.cache)
  /\ damage' = SavedDamage
  /\ output' = [op |-> "otherSet", arg |-> s]
  /\ UNCHANGED <<now, cwd, diskOk, cache, pc, diff, summary, attempt, requests, last,
                 delays, result, exit, heuristicCalls, writes, prev, ticks, input>>

\* Set, Get, ClearCache and Load change the first process's map and the file
\* only: CacheOp leaves other as it is.
NextShared ==
  \/ \E s \in CacheTexts : Set(s)
  \/ \E s \in CacheTexts : Get(s)
  \/ \E dir \in Folders : Load(dir)
  \/ OtherLoad
  \/ \E s \in CacheTexts : OtherSet(s)
  \/ \E dt \in TimeSteps : Tick(dt)

SpecShared == Init /\ [][NextShared]_vars

(***************************************************************************)
(* The pure functions, applied to inputs drawn from bounded sets: the      *)
(* input is chosen at the start and the function named in it is applied    *)
(* once.                                                                   *)
(***************************************************************************)
\* A feature vector with nothing detected and no line changed.
NoFeatures ==
  [hasBugFix |-> FALSE, hasTestFix |-> FALSE, hasNewFunction |-> FALSE,
   hasNewClass |-> FALSE, hasNewEndpoint |-> FALSE, hasNewComponent |-> FALSE,
   hasRefactor |-> FALSE, hasRename |-> FALSE, hasMovedCode |-> FALSE,
   hasDocsChange |-> FALSE, hasCommentChange |-> FALSE, hasTestChange |-> FALSE,
   hasDeletions |-> FALSE, hasStyleChange |-> FALSE, hasWhitespaceOnly |-> FALSE,
   hasConfigChange |-> FALSE, hasDependencyChange |-> FALSE,
   additions |-> 0, deletions |-> 0, hasChanges |-> FALSE]

\* The feature vectors that differ in a field generateMessage reads.
MessageFeatures ==
  {[NoFeatures EXCEPT !.hasTestFix = b[1], !.hasNewEndpoint = b[2],
                      !.hasNewComponent = b[3], !.hasNewClass = b[4],
                      !.hasNewFunction = b[5], !.hasMovedCode = b[6],
                      !.hasDependencyChange = b[7], !.hasConfigChange = b[8],
                      !.additions = n[1], !.deletions = n[2],
                      !.hasDeletions = (n[2] > 0), !.hasChanges = (n[1] + n[2] > 0)] :
     b \in [1..8 -> BOOLEAN], n \in {<<0, 0>>, <<1, 1>>, <<1, 3>>}}

\* The intents determineIntent returns.
Intents ==
  {I_BugFix, I_Feature, I_Refactor, I_Test, I_Documentation, I_Style, I_Chore, I_Update}

\* summary.total: small counts, a count of two digits, and the largest integer.
LargestCount == 2^30 + (2^30 - 1)
FileCounts == (0..MaxFileCount) \cup {10, LargestCount}
Summaries ==
  {NoSummary} \cup {[present |-> TRUE, total |-> n, renamed |-> 0] : n \in FileCounts}

\* A message of n characters, the i-th being the last digit of i.
MessageOfLength(n) == [i \in 1..n |-> DigitChar(i % 10)]

\* A payload whose message has n characters.
PayloadOfLength(n) ==
  IntentLabel \o <<" ">> \o I_Feature \o NL \o MessageLabel \o <<" ">> \o MessageOfLength(n)

\* DiffFix and DiffBlank, each with and without surrounding whitespace.
DiffTexts ==
  {[d EXCEPT !.pad = w] : d \in {DiffFix, DiffBlank}, w \in BOOLEAN}

PureInputs ==
  {[op |-> "generateMessage", analysis |-> a, intent |-> i, summary |-> s] :
     a \in MessageFeatures, i \in Intents, s \in Summaries}
  \cup {[op |-> "parseResponse", response |-> PayloadOfLength(n), length |-> n] :
          n \in 0..MaxResponseLen}
  \cup {[op |-> "key", a |-> d[1], b |-> d[2]] : d \in DiffTexts \X DiffTexts}

\* Nothing has run yet: the state of Init with a writable directory.
Quiescent ==
  /\ now = 0
  /\ cwd = "commitect"
  /\ diskOk = TRUE
  /\ cache = EmptyMap
  /\ file = EmptyMap
  /\ pc = "idle"
  /\ diff = None
  /\ summary = None
  /\ attempt = 0
  /\ requests = 0
  /\ last = None
  /\ delays = <<>>
  /\ result = None
  /\ exit = "none"
  /\ heuristicCalls = 0
  /\ writes = 0
  /\ prev = None
  /\ calls = 0
  /\ ticks = 0
  /\ damage = None
  /\ other = None

InitPure ==
  /\ Quiescent
  /\ input \in PureInputs
  /\ output = None

Apply(op, value) ==
  /\ input.op = op
  /\ output = None
  /\ output' = value
  /\ UNCHANGED <<now, cwd, diskOk, cache, file, pc, diff, summary, attempt, requests,
                 last, delays, result, exit, heuristicCalls, writes, prev, calls, ticks,
                 damage, input, other>>

ApplyGenerateMessage ==
  /\ input.op = "generateMessage"
  /\ Apply("generateMessage",
           [message |-> generateMessage(input.analysis, input.intent, input.summary)])

ApplyParseResponse ==
  /\ input.op = "parseResponse"
  /\ Apply("parseResponse", parseResponse(input.response))

\* The keys under which generateCommitMessage looks up two diff texts.
ApplyKey ==
  /\ input.op = "key"
  /\ Apply("key", [a |-> LookupKey(input.a), b |-> LookupKey(input.b)])

NextPure ==
  \/ ApplyGenerateMessage
  \/ ApplyParseResponse
  \/ ApplyKey

SpecPure == InitPure /\ [][NextPure]_vars

(***************************************************************************)
(* determineIntent applied to every feature vector.                        *)
(***************************************************************************)
\* Numbers of added and removed lines: none, one side only, removed twice
\* the added, removed more than twice the added.
LineCounts == {<<0, 0>>, <<1, 0>>, <<0, 1>>, <<1, 2>>, <<1, 3>>}

\* Every combination of the signals determineIntent reads, with each pair of
\* line counts; hasChanges and hasDeletions follow the counts as in analyzeDiff.
IntentFeatures ==
  {[NoFeatures EXCEPT !.hasBugFix = b[1], !.hasTestFix = b[2], !.hasTestChange = b[3],
                      !.hasDocsChange = b[4], !.hasRefactor = b[5], !.hasMovedCode = b[6],
                      !.hasNewFunction = b[7], !.hasNewClass = b[8],
                      !.hasNewComponent = b[9], !.hasNewEndpoint = b[10],
                      !.hasDependencyChange = b[11], !.hasConfigChange = b[12],
                      !.hasStyleChange = b[13], !.hasWhitespaceOnly = b[14],
                      !.additions = n[1], !.deletions = n[2],
                      !.hasDeletions = (n[2] > 0), !.hasChanges = (n[1] + n[2] > 0)] :
     b \in [1..14 -> BOOLEAN], n \in LineCounts}

InitIntent ==
  /\ Quiescent
  /\ input \in {[op |-> "determineIntent", analysis |-> a] : a \in IntentFeatures}
  /\ output = None

ApplyDetermineIntent ==
  /\ input.op = "determineIntent"
  /\ Apply("determineIntent", [intent |-> determineIntent(input.analysis)])

NextIntent == ApplyDetermineIntent

SpecIntent == InitIntent /\ [][NextIntent]_vars

(***************************************************************************)
(* The heuristic classifier applied to diffs of one file section with up   *)
(* to MaxDiffLines lines after the header.                                 *)
(***************************************************************************)
DiffPaths == {"src/app.ts", "README.md", "src/app.test.ts", "config.yml", "src/App.tsx",
              "src/fix.ts"}

DiffLineTexts ==
  {"", "}", "  total = count + 1;", "  // fix crash on empty input",
   "export function parse(s) {", "export function Button() {",
   "export function cleanup() {", "  // refactor helper", "  // run prettier"}

DiffLines == {Line(sign, text) : sign \in {"+", "-", " "}, text \in DiffLineTexts}

\* The sequences of at most n lines.
LinesUpTo(n) == UNION {[1..k -> DiffLines] : k \in 0..n}

SectionDiffs ==
  {[tag |-> "diff", pad |-> FALSE, lines |-> <<Line("diff", path)>> \o body] :
     path \in DiffPaths, body \in LinesUpTo(MaxDiffLines)}

ClassifierSummaries ==
  {NoSummary, [present |-> TRUE, total |-> 1, renamed |-> 0],
   [present |-> TRUE, total |-> 2, renamed |-> 1]}

InitHeuristic ==
  /\ Quiescent
  /\ input \in {[op |-> "classify", diff |-> d, summary |-> s] :
                  d \in SectionDiffs, s \in ClassifierSummaries}
  /\ output = None

\* analyzeDiff, determineIntent and generateMessage, as generateFallbackCommit
\* chains them.
ApplyClassify ==
  /\ input.op = "classify"
  /\ Apply("classify", FallbackSuggestion(input.diff, input.summary))

NextHeuristic == ApplyClassify

SpecHeuristic == InitHeuristic /\ [][NextHeuristic]_vars

(***************************************************************************)
(* utils/git.ts: getGitDiff on the output of git.  A path is the sequence  *)
(* of its components, the file's name last; a line of the output is the    *)
(* header of a file section or a line of its body.                         *)
(***************************************************************************)
MaxSections == 2

\* The directories of IGNORED_PATHS, each written there with its slash.
IGNORED_PATHS == {"node_modules", "bin", "obj", "dist", "build", ".git"}

GitHeader(path) == [kind |-> "header", path |-> path]
GitLine(sign, text) == [kind |-> "line", sign |-> sign, text |-> text]

\* line.split(' b/')[1] of a header 'diff --git a/<path> b/<path>'.
HeaderPath(line) == line.path

\* IGNORED_PATHS.some(ignored => path?.startsWith(ignored)): the path begins
\* with the directory's name and a slash.
startsWithIgnored(path) == Len(path) >= 2 /\ path[1] \in IGNORED_PATHS

\* The loop of filterIgnoredPaths from line i on, skipFile as left by the
\* lines before.
RECURSIVE FilterFrom(_, _, _)
FilterFrom(lines, i, skipFile) ==
  IF i > Len(lines) THEN <<>>
  ELSE LET line == lines[i]
           skip == IF line.kind = "header"
                   THEN startsWithIgnored(HeaderPath(line))
                   ELSE skipFile
       IN (IF skip THEN <<>> ELSE <<line>>) \o FilterFrom(lines, i + 1, skip)

filterIgnoredPaths(d) == FilterFrom(d, 1, FALSE)

\* getGitDiff when git succeeds with the output out.
getGitDiff(out) == filterIgnoredPaths(out)

\* Paths: a source file, files in ignored directories at the top, a file
\* named like an ignored directory, ignored directories below the top.
GitPaths ==
  {<<"src", "app.ts">>, <<"node_modules", "x.js">>, <<"dist", "main.js">>, <<"bin">>,
   <<"packages", "node_modules", "x.js">>, <<"lib", "build", "out.js">>}

GitBodies ==
  {<<GitLine("+", "a")>>, <<GitLine("-", "b"), GitLine("+", "c")>>}

GitSections == {[path |-> p, body |-> b] : p \in GitPaths, b \in GitBodies}

RECURSIVE SectionsUpTo(_)
SectionsUpTo(n) ==
  IF n = 0 THEN {<<>>}
  ELSE SectionsUpTo(n - 1)
       \cup {Append(ss, x) : ss \in {t \in SectionsUpTo(n - 1) : Len(t) = n - 1},
                             x \in GitSections}

\* The output of git diff HEAD: each file's header, then its body.
RECURSIVE GitDiffText(_)
GitDiffText(sections) ==
  IF sections = <<>> THEN <<>>
  ELSE <<GitHeader(Head(sections).path)>> \o Head(sections).body
       \o GitDiffText(Tail(sections))

InitGit ==
  /\ Quiescent
  /\ input \in {[op |-> "getGitDiff", sections |-> ss] :
                  ss \in SectionsUpTo(MaxSections) \ {<<>>}}
  /\ output = None

ApplyGetGitDiff ==
  /\ input.op = "getGitDiff"
  /\ Apply("getGitDiff", [diff |-> getGitDiff(GitDiffText(input.sections))])

NextGit == ApplyGetGitDiff

SpecGit == InitGit /\ [][NextGit]_vars

(***************************************************************************)
(* Properties.                                                             *)
(***************************************************************************)
WellFormedBodies == {Body(P_good), Body(P_long)}
MalformedBodies == {BodyAbsent, BodyNoField, Body(P_noMessage), Body(P_emptyValue)}

WellFormed(o) == o.kind = "ok" /\ o.data \in WellFormedBodies
Malformed(o) == o.kind = "ok" /\ o.data \in MalformedBodies

\* HTTP 429, HTTP 5xx, ECONNREFUSED or ETIMEDOUT.
RetryableFailure(o) ==
  o.kind = "axios"
  /\ (o.status = 429 \/ o.status >= 500 \/ o.code \in {"ECONNREFUSED", "ETIMEDOUT"})

\* An HTTP 4xx status other than 429.
ClientError(o) == o.kind = "axios" /\ o.status \in 400..499 /\ o.status # 429

\* An invocation starts in this step.
Starts == pc = "idle" /\ pc' # "idle"
\* The request in flight completes in this step.
Completes == pc = "wait" /\ pc' # "wait"

\* What the two well-formed payloads of the pool say.
ExpectedParse(b) ==
  IF b = Body(P_good)
  THEN [intent |-> I_Feature, message |-> <<"a", "d", "d", " ", "x">>]
  ELSE [intent |-> I_Refactor, message |-> Rep("m", 67) \o <<".", ".", ".">>]

\* C1: an invocation made while the cache holds a live entry (age at most 30
\* days) under the diff's key returns that entry's intent and message at
\* once: no request is sent, the heuristic classifier is not invoked, and
\* neither the map nor the file is written.
C1_CacheHitReturnsEntry ==
  [][\A in \in Inputs :
       LET k == LookupKey(in[1])
       IN (Starts /\ diff' = in[1] /\ k \in DOMAIN cache
           /\ now - cache[k].timestamp <= CACHE_MAX_AGE)
          => /\ pc' = "done"
             /\ exit' = "cached"
             /\ result'.intent = cache[k].intent
             /\ result'.message = cache[k].message
             /\ requests' = 0
             /\ heuristicCalls' = 0
             /\ writes' = 0
             /\ cache' = cache
             /\ file' = file]_vars

\* A hit on an entry that is exactly 30 days old.
C1_Witness ==
  /\ pc = "done"
  /\ exit = "cached"
  /\ requests = 0
  /\ now - cache[LookupKey(diff)].timestamp = CACHE_MAX_AGE

C3_NeverRaises == pc = "done" => exit \in {"cached", "remote", "fallback"}

\* C4: whenever remote classification fails (no attempt of the invocation
\* returned a well-formed response), the invocation returns exactly the
\* heuristic classifier's result for the same diff and summary, and the cache
\* holds that result, live, under the key the lookup used.
C4_FailureFallsBack ==
  (pc = "done" /\ requests > 0 /\ ~WellFormed(last))
  => LET a == analyzeDiff(diff, summary)
         k == LookupKey(diff)
     IN /\ exit = "fallback"
        /\ heuristicCalls = 1
        /\ result = [intent |-> determineIntent(a),
                     message |-> generateMessage(a, determineIntent(a), summary)]
        /\ k \in DOMAIN cache
        /\ cache[k].intent = result.intent
        /\ cache[k].message = result.message
        /\ now - cache[k].timestamp <= CACHE_MAX_AGE

\* Three HTTP 500 responses, then the fallback with the file count.
C4_Witness ==
  /\ pc = "done"
  /\ exit = "fallback"
  /\ requests = 3
  /\ last = HttpError(500, "ERR_BAD_RESPONSE")
  /\ summary = SummaryTwo
  /\ result.message = S_fixIssues \o S_in \o <<"2">> \o S_sp \o S_files

\* C5: on a cache miss, a well-formed response on attempt k makes the
\* invocation return the parsed, non-empty intent and message, write one
\* cache entry with those values under the key the lookup used, send no
\* further request and not invoke the heuristic classifier.
C5_WellFormedResponseReturned ==
  (pc = "done" /\ requests > 0 /\ WellFormed(last))
  => LET k == LookupKey(diff)
     IN /\ exit = "remote"
        /\ result = ExpectedParse(last.data)
        /\ result.intent # <<>>
        /\ result.message # <<>>
        /\ requests = attempt
        /\ writes = 1
        /\ heuristicCalls = 0
        /\ k \in DOMAIN cache
        /\ cache[k] = [hash |-> k, intent |-> result.intent, message |-> result.message,
                       timestamp |-> now, folder |-> cwd]

\* The third attempt succeeds.
C5_Witness ==
  /\ pc = "done"
  /\ exit = "remote"
  /\ attempt = 3
  /\ requests = 3
  /\ last = [kind |-> "ok", data |-> Body(P_good)]

\* C6: an invocation never sends more than 3 requests.
C6_AtMostThreeRequests == requests <= 3

\* The third request is in flight.
C6_Witness == pc = "wait" /\ requests = 3

\* C7: a failure with HTTP 429, HTTP 5xx, ECONNREFUSED or ETIMEDOUT on attempt
\* 1 or 2 starts a backoff, and the backoff ends in the next attempt's
\* request; the fallback follows such a failure only when it is the third.
C7_RetryableFailuresRetried ==
  [][/\ (Completes /\ RetryableFailure(last') /\ attempt < 3)
        => (pc' = "sleep" /\ exit' = "none" /\ heuristicCalls' = 0)
     /\ (pc = "sleep" /\ pc' # "sleep")
        => (pc' = "wait" /\ attempt' = attempt + 1 /\ requests' = requests + 1)
     /\ (Completes /\ RetryableFailure(last') /\ pc' = "done")
        => (exit' = "fallback" /\ attempt = 3 /\ requests = 3)]_vars

\* Three time-outs, then the fallback.
C7_Witness ==
  /\ pc = "done"
  /\ exit = "fallback"
  /\ requests = 3
  /\ Len(delays) = 2
  /\ last = NetError("ETIMEDOUT")

C9_ClientErrorEndsAttempts ==
  ClientError(last)
  => /\ pc = "done"
     /\ exit = "fallback"
     /\ requests = attempt
     /\ Len(delays) = attempt - 1

\* A 404 on the first attempt.
C9_Witness ==
  /\ ClientError(last)
  /\ pc = "done"
  /\ requests = 1
  /\ delays = <<>>

C11_BackoffDelays ==
  /\ [][/\ \A i \in 1..Len(delays') : delays'[i] = 500 * 2^i
        /\ Len(delays') <= maxRetries - 1
        /\ (pc' = "sleep" => Len(delays') = attempt')
        /\ (pc' \in {"wait", "done"} /\ exit' # "cached" => Len(delays') = attempt' - 1)
        /\ (exit' = "cached" => delays' = <<>>)
        /\ (pc = "sleep" => /\ pc' = "wait"
                            /\ attempt' = attempt + 1
                            /\ (now' - now) * TimeUnitMs = 500 * 2^attempt)
        /\ (pc = "wait" /\ attempt = 1 /\ pc' = "sleep" => delays' = <<1000>>)
        /\ (pc = "wait" /\ attempt = 2 /\ pc' = "sleep" => delays' = <<1000, 2000>>)
        /\ (pc = "wait" /\ attempt = maxRetries => delays' = delays /\ pc' = "done")
        /\ (pc = "wait" /\ ClientError(last') => delays' = delays /\ pc' = "done")
       ]_vars

\* C11 witness: the third attempt is in flight after delays of 1000 and 2000 ms.
C11_Witness ==
  pc = "wait" /\ attempt = 3 /\ delays = <<1000, 2000>> /\ now = 6

\* The function named in the input has been applied.
Applied(op) == input # None /\ input.op = op /\ output # None

\* C12: every message generateCommitMessage produces has at most 70
\* characters: the message parseResponse returns on the remote path, whatever
\* the length of the message in the response, and the message generateMessage
\* builds on the heuristic path, for every feature vector, intent and file
\* count of the summary; the heuristic message is its template whole, not
\* cut and not ending in an ellipsis.
C12_MessagesAtMost70 ==
  /\ (Applied("parseResponse") /\ output.ok => Len(output.message) <= 70)
  /\ (Applied("generateMessage") =>
        /\ Len(output.message) <= 70
        /\ Len(output.message) >= 6
        /\ SubSeq(output.message, Len(output.message) - 2, Len(output.message))
             # <<".", ".", ".">>)

\* C12 witness: the longest template with the largest file count.
C12_Witness ==
  /\ Applied("generateMessage")
  /\ input.intent = I_Feature
  /\ input.summary.total = LargestCount
  /\ Len(output.message) = 42

\* C13: parseResponse returns a parsed message of at most 70 characters
\* unchanged, and replaces a longer one by its first 67 characters followed
\* by '...', a result of exactly 70 characters.
C13_TruncationTo67PlusEllipsis ==
  Applied("parseResponse") /\ input.length > 0 =>
    /\ output.ok
    /\ output.intent = I_Feature
    /\ IF input.length <= 70
       THEN output.message = MessageOfLength(input.length)
       ELSE /\ output.message = MessageOfLength(67) \o <<".", ".", ".">>
            /\ Len(output.message) = 70

\* C13 witness: a message of 71 characters has been cut to 70.
C13_Witness ==
  Applied("parseResponse") /\ input.length = 71 /\ output.ok /\ Len(output.message) = 70

ThirtyDays == 30 * 24 * 60 * 60 * (1000 \div TimeUnitMs)

\* The step is a call of the cache operation op: every step but the passing
\* of time leaves the operation it is in the output.
Calls(op) == now' = now /\ output' # None /\ output'.op = op

\* C15: commitCache.get never returns an entry older than 30 days; a get
\* that finds such an entry returns null and deletes it from the map and,
\* when the file can be written, from the file, so that getHistory no longer
\* lists it.
C15_ExpiredEntryEvicted ==
  [][Calls("get") =>
       LET hash == hashDiff(output'.arg)
       IN /\ (output'.value # None =>
                /\ hash \in DOMAIN cache
                /\ now - cache[hash].timestamp <= ThirtyDays
                /\ output'.value.message = cache[hash].message)
          /\ (hash \in DOMAIN cache
              /\ now - cache[hash].timestamp > ThirtyDays =>
                /\ output'.value = None
                /\ hash \notin DOMAIN cache'
                /\ (diskOk => hash \notin DOMAIN file')
                /\ \A i \in 1..Len(getHistory(cache')) : HashOf(getHistory(cache')[i]) # hash)
    ]_vars

\* C15 witness: a get has found an entry, returned null, and the entry is
\* gone from the map and from the file while another entry remains.
C15_Witness ==
  /\ output # None
  /\ output.op = "get"
  /\ output.entry # None
  /\ output.value = None
  /\ output.entry.hash \notin DOMAIN cache
  /\ output.entry.hash \notin DOMAIN file
  /\ DOMAIN file # {}
  /\ diskOk

\* C16: whenever getHistory or getHistoryByFolder is called, no entry it
\* returns is older than 30 days at the time of the call, an entry that
\* expired while the map held it and has not been looked up since included.
C16_SnapshotsExcludeExpired ==
  [][Calls("getHistory") \/ Calls("getHistoryByFolder") =>
       \A i \in 1..Len(output'.value) :
         now - output'.value[i].timestamp <= ThirtyDays
    ]_vars

SameTrimmed(a, b) == TrimText(a) = TrimText(b)

\* C18: two diff texts that are equal after trimming surrounding whitespace
\* get the same cache key in generateCommitMessage, and two that differ after
\* trimming get different keys.
C18_KeyOfTrimmedText ==
  Applied("key") => (SameTrimmed(input.a, input.b) <=> output.a = output.b)

\* C19: the constructor finding a corrupted or unreadable file (invalid JSON,
\* JSON that is no array, or an array with a malformed record at any
\* position) returns without raising and leaves the map empty: no entry of
\* the file is kept.
C19_CorruptedFileLoadsEmpty ==
  [][Calls("load") /\ damage # None => DOMAIN cache' = {}]_vars

\* C20: when the cache file cannot be written, set, an evicting get and
\* clear still return and keep their change of the map, the file staying as
\* it was: the set of a finishing invocation leaves the entry in the map and
\* the invocation returns its suggestion; an invocation that finds an expired
\* entry deletes it and goes on to the request; clear empties the map; and a
\* second invocation for the same diff in the same process is a cache hit.
C20_SaveFailureIsSwallowed ==
  [][~diskOk =>
       /\ file' = file
       /\ (writes' = writes + 1 =>
             /\ pc' = "done"
             /\ exit' \in {"remote", "fallback"}
             /\ LookupKey(diff) \in DOMAIN cache'
             /\ cache'[LookupKey(diff)].intent = result'.intent
             /\ cache'[LookupKey(diff)].message = result'.message
             /\ cache'[LookupKey(diff)].timestamp = now)
       /\ (Starts /\ LookupKey(diff') \in DOMAIN cache
           /\ now - cache[LookupKey(diff')].timestamp > ThirtyDays =>
             /\ LookupKey(diff') \notin DOMAIN cache'
             /\ pc' = "wait")
       /\ (Calls("clearCache") /\ pc' = "idle" => DOMAIN cache' = {})
       /\ (Starts /\ prev # None /\ diff' = prev.diff /\ now - prev.ts <= ThirtyDays =>
             /\ exit' = "cached"
             /\ result'.intent = prev.out.intent
             /\ result'.message = prev.out.message)
       /\ (pc = "done" /\ pc' = "idle" => exit # "throw" /\ prev'.out.message = result.message)
    ]_vars

\* C20 witness: a cache hit on an entry that no write has persisted.
C20_Witness ==
  /\ ~diskOk
  /\ pc = "done"
  /\ exit = "cached"
  /\ LookupKey(diff) \in DOMAIN cache
  /\ LookupKey(diff) \notin DOMAIN file
  /\ result.message = cache[LookupKey(diff)].message

\* The precedence of the categories: conditions and categories in order.
Precedence(a) ==
  <<[when |-> a.hasBugFix \/ a.hasTestFix, category |-> <<"B","u","g"," ","F","i","x">>],
    [when |-> a.hasTestChange /\ ~a.hasBugFix, category |-> <<"T","e","s","t">>],
    [when |-> a.hasDocsChange,
     category |-> <<"D","o","c","u","m","e","n","t","a","t","i","o","n">>],
    [when |-> a.hasRefactor \/ a.hasMovedCode \/ a.deletions > 2 * a.additions,
     category |-> <<"R","e","f","a","c","t","o","r">>],
    [when |-> a.hasNewFunction \/ a.hasNewClass \/ a.hasNewComponent \/ a.hasNewEndpoint,
     category |-> <<"F","e","a","t","u","r","e">>],
    [when |-> a.hasDependencyChange \/ a.hasConfigChange,
     category |-> <<"C","h","o","r","e">>],
    [when |-> a.hasStyleChange \/ a.hasWhitespaceOnly,
     category |-> <<"S","t","y","l","e">>],
    [when |-> TRUE, category |-> <<"U","p","d","a","t","e">>]>>

\* The category of the first rule whose condition holds.
FirstMatch(rules) ==
  rules[CHOOSE i \in 1..Len(rules) :
          rules[i].when /\ \A j \in 1..(i - 1) : ~rules[j].when].category

\* C21: for every feature vector determineIntent returns Chore when nothing
\* changed, else the category of the first matching rule of the precedence
\* (bug-fix or test-fix, test without bug-fix, docs, refactor or moved code or
\* removed > 2 x added, new function/class/component/endpoint, dependency or
\* config, style or whitespace-only, otherwise Update): one of the eight.
C21_IntentPrecedence ==
  Applied("determineIntent") =>
    /\ output.intent = IF input.analysis.additions + input.analysis.deletions = 0
                       THEN <<"C","h","o","r","e">>
                       ELSE FirstMatch(Precedence(input.analysis))
    /\ output.intent \in Intents

\* C21 witness: test and docs signals together, with changes and no bug-fix
\* signal, give Test.
C21_Witness ==
  /\ Applied("determineIntent")
  /\ input.analysis.hasTestChange
  /\ input.analysis.hasDocsChange
  /\ ~input.analysis.hasBugFix
  /\ ~input.analysis.hasTestFix
  /\ input.analysis.hasChanges
  /\ output.intent = I_Test

\* The added and removed lines of a diff, its path, and whether some line or
\* path of it matches a pattern.
ChangedLines(d, sign) == {i \in 2..Len(d.lines) : d.lines[i].sign = sign}
PathOf(d) == d.lines[1].text
Says(d, pattern) ==
  \/ pattern \in PathPatterns(PathOf(d))
  \/ \E i \in 2..Len(d.lines) : pattern \in LinePatterns(d.lines[i].text)

\* Some line is added or removed, and every such line is whitespace-only.
WhitespaceOnlyDiff(d) ==
  /\ ChangedLines(d, "+") \cup ChangedLines(d, "-") # {}
  /\ \A i \in ChangedLines(d, "+") \cup ChangedLines(d, "-") : d.lines[i].text = ""

FormatAndStyle == <<"f","o","r","m","a","t"," ","a","n","d"," ","s","t","y","l","e">>

OnlyBugVocabulary(d) ==
  /\ Says(d, "bugFix")
  /\ ~Says(d, "testFix") /\ ~Says(d, "refactor") /\ ~Says(d, "style")
  /\ "test" \notin PathPatterns(PathOf(d))

AddsOnlyExportedFunction(d) ==
  /\ ChangedLines(d, "+") # {}
  /\ ChangedLines(d, "-") = {}
  /\ \A i \in ChangedLines(d, "+") : "newFunction" \in LinePatterns(d.lines[i].text)
  /\ ~Says(d, "bugFix") /\ ~Says(d, "testFix")
  /\ PathPatterns(PathOf(d)) \cap {"test", "docs"} = {}

AddNewFunctionality ==
  <<"a","d","d"," ","n","e","w"," ","f","u","n","c","t","i","o","n","a","l","i","t","y">>

EndsWith(s, t) == Len(s) >= Len(t) /\ SubSeq(s, Len(s) - Len(t) + 1, Len(s)) = t
HasDigit(s) ==
  \E i \in 1..Len(s) : s[i] \in {"0", "1", "2", "3", "4", "5", "6", "7", "8", "9"}

\* The templates of the claim with the count of the summary: ' in N file' for
\* N = 1, ' in N files' for another positive N, nothing without one.
InFiles(s) ==
  IF s.present /\ s.total > 0
  THEN <<" ","i","n"," ">> \o Digits(s.total)
       \o (IF s.total = 1 THEN <<" ","f","i","l","e">> ELSE <<" ","f","i","l","e","s">>)
  ELSE <<>>

\* C25: generateMessage follows the templates: BugFix with test-fix gives
\* 'fix failing tests' and Refactor with moved code gives 'restructure code',
\* each followed by ' in N files' exactly when the summary has a positive
\* file count N; Feature with new endpoint gives 'add new API endpoints' for
\* every N; and every message with a count ends in 'N file' for N = 1 and in
\* 'N files' for any other N.
C25_MessageTemplates ==
  Applied("generateMessage") =>
    LET a == input.analysis
        s == input.summary
        m == output.message
    IN /\ (input.intent = I_BugFix /\ a.hasTestFix =>
             m = <<"f","i","x"," ","f","a","i","l","i","n","g"," ","t","e","s","t","s">>
                 \o InFiles(s))
       /\ (input.intent = I_Refactor /\ a.hasMovedCode =>
             m = <<"r","e","s","t","r","u","c","t","u","r","e"," ","c","o","d","e">>
                 \o InFiles(s))
       /\ (input.intent = I_Feature /\ a.hasNewEndpoint =>
             m = <<"a","d","d"," ","n","e","w"," ","A","P","I"," ",
                   "e","n","d","p","o","i","n","t","s">>)
       /\ (HasDigit(m) =>
             /\ s.present /\ s.total > 0
             /\ IF s.total = 1
                THEN EndsWith(m, <<" ","1"," ","f","i","l","e">>)
                ELSE EndsWith(m, <<" ">> \o Digits(s.total) \o <<" ","f","i","l","e","s">>))

\* C25 witness: BugFix with test-fix and one file: 'fix failing tests in 1 file'.
C25_Witness ==
  /\ Applied("generateMessage")
  /\ input.intent = I_BugFix
  /\ input.analysis.hasTestFix
  /\ input.summary.total = 1
  /\ output.message = S_fixFailingTests \o S_in \o <<"1">> \o S_sp \o S_file

\* A step in which generateFallbackCommit returns.
FallbackStep == pc = "wait" /\ pc' = "done" /\ exit' = "fallback"

\* The suggestion of the heuristic for each input of Inputs, read off the
\* rules: the diff and the summary decide it, nothing else.
ExpectedFallback(d, s) ==
  CASE d = DiffFix /\ s = SummaryTwo ->
         [intent |-> I_BugFix,
          message |-> <<"f","i","x"," ","i","s","s","u","e","s"," ","i","n"," ",
                        "2"," ","f","i","l","e","s">>]
    [] d = DiffFix /\ s = NoSummary ->
         [intent |-> I_BugFix,
          message |-> <<"f","i","x"," ","i","s","s","u","e","s">>]
    [] d = DiffBlank /\ s = NoSummary ->
         [intent |-> I_Chore,
          message |-> <<"u","p","d","a","t","e"," ","c","o","n","f","i","g","u","r",
                        "a","t","i","o","n"," ","f","i","l","e","s">>]

\* C26 as stated: the heuristic's suggestion is decided by the diff and the
\* summary alone (the absent summary included), whatever the cache holds,
\* whatever the time and whatever was invoked before, and the classifying step
\* changes neither the in-memory map nor the cache file.
C26_ClassifierIsPure ==
  [][FallbackStep =>
       /\ result' = ExpectedFallback(diff, summary)
       /\ cache' = cache
       /\ file' = file]_vars

\* C26 amended: the suggestion is decided by the diff and the summary alone,
\* whatever the cache holds, whatever the time and whatever was invoked
\* before; generateFallbackCommit then stores it in the map under the diff's
\* key, stamped with the current time, and saves the map to the file.
C26_ClassifierIsDeterministicAndStores ==
  [][FallbackStep =>
       /\ result' = ExpectedFallback(diff, summary)
       /\ LookupKey(diff) \in DOMAIN cache'
       /\ cache'[LookupKey(diff)].intent = result'.intent
       /\ cache'[LookupKey(diff)].message = result'.message
       /\ cache'[LookupKey(diff)].timestamp = now
       /\ \A h \in DOMAIN cache' \ {LookupKey(diff)} : h \in DOMAIN cache /\ cache'[h] = cache[h]
       /\ (diskOk => file' = cache')]_vars

\* C26 witness: the heuristic has classified the same diff and summary a
\* second time, later, after an earlier call returned another suggestion for
\* it, and the result is in the map.
C26_Witness ==
  /\ pc = "done"
  /\ exit = "fallback"
  /\ now > 0
  /\ calls = 2
  /\ prev # None
  /\ prev.diff = diff
  /\ prev.summary = summary
  /\ prev.out # result
  /\ result = ExpectedFallback(diff, summary)
  /\ LookupKey(diff) \in DOMAIN cache

\* The path lies in an ignored directory, at any depth.
LiesInIgnored(path) == \E i \in 1..(Len(path) - 1) : path[i] \in IGNORED_PATHS

KeptSection(x) == ~LiesInIgnored(x.path)

\* C27: the diff getGitDiff returns has no line of a file section whose path
\* lies in an ignored directory at any depth, and has every line of every
\* other section, in the original order.
C27_IgnoredSectionsRemoved ==
  Applied("getGitDiff") =>
    output.diff = GitDiffText(SelectSeq(input.sections, KeptSection))

\* C27, what does hold: the sections whose path begins with an ignored directory
\* are removed, all others are kept in order.
C27_TopLevelIgnoredRemoved ==
  Applied("getGitDiff") =>
    output.diff =
      GitDiffText(SelectSeq(input.sections,
                            LAMBDA x : ~(Len(x.path) >= 2 /\ x.path[1] \in IGNORED_PATHS)))

\* C27, the failing input: a section below packages/node_modules is in the
\* returned diff.
C27_NestedKept ==
  /\ Applied("getGitDiff")
  /\ \E i \in 1..Len(output.diff) :
       /\ output.diff[i].kind = "header"
       /\ output.diff[i].path = <<"packages", "node_modules", "x.js">>

\* C28: with two processes on one cache file the last writer wins, without
\* lock or merge: after a set that writes the file, the file is the writer's
\* own map, and an entry the other process holds under a key the writer's map
\* lacks is not in the file, whether or not it was there before.
C28_LastWriterWins ==
  [][/\ (Calls("otherSet") /\ diskOk =>
           /\ file' = other'.cache
           /\ \A h \in DOMAIN cache \ DOMAIN other'.cache : h \notin DOMAIN file')
     /\ (Calls("set") /\ diskOk =>
           /\ file' = cache'
           /\ (other # None => \A h \in DOMAIN other.cache \ DOMAIN cache' : h \notin DOMAIN file'))]_vars

\* C28 witness: both processes loaded the empty file, the first stored an
\* entry for one diff, the second then one for the other diff: the file is
\* the second's map and the first's entry is gone from it.
C28_Witness ==
  /\ other # None
  /\ output # None
  /\ output.op = "otherSet"
  /\ DOMAIN cache = {hashDiff(DiffHash(DiffFix))}
  /\ DOMAIN other.cache = {hashDiff(DiffHash(DiffBlank))}
  /\ file = other.cache
  /\ hashDiff(DiffHash(DiffFix)) \notin DOMAIN file

\* The entry under h is new or another than before.
Written(c, d, h) == h \in DOMAIN d /\ (h \notin DOMAIN c \/ c[h] # d[h])

\* A record of the file under h that no load takes any more: an earlier
\* process left it, and it has reached the maximum age.
OnlyStale(f, h, t) == h \in DOMAIN f => t - f[h].timestamp >= CACHE_MAX_AGE

\* C29: an entry is written, to the map or to the file, only in the step in
\* which generateCommitMessage has its complete result, the remote suggestion
\* or the heuristic one, and it is the entry of that result under the diff's
\* key; while the function is suspended at a request or a backoff delay the
\* map has no entry for that key and the file none but a record an earlier
\* process left there, so an interrupt leaves no entry of this invocation,
\* in the map it ends with or in the file the next process loads.
C29_EntryOnlyAfterResult ==
  [][/\ \A h \in (DOMAIN cache') \cup (DOMAIN file') :
          Written(cache, cache', h) \/ Written(file, file', h) =>
            /\ pc = "wait" /\ pc' = "done"
            /\ exit' \in {"remote", "fallback"}
            /\ h = LookupKey(diff)
            /\ cache'[h].intent = result'.intent
            /\ cache'[h].message = result'.message
     /\ (pc' \in {"wait", "sleep"} =>
           /\ LookupKey(diff') \notin DOMAIN cache'
           /\ OnlyStale(file', LookupKey(diff'), now'))
     /\ (Calls("interrupt") =>
           /\ output'.key \notin (DOMAIN cache) \cup (DOMAIN cache')
           /\ file' = file
           /\ OnlyStale(file', output'.key, now'))]_vars

\* C29 witness: the invocation was interrupted in the backoff delay after its
\* second request, while the cache holds the entry of an earlier invocation
\* for another diff and none for this one.
C29_Witness ==
  /\ output # None
  /\ output.op = "interrupt"
  /\ output.during = "sleep"
  /\ output.attempt = 2
  /\ DOMAIN cache # {}
  /\ output.key \notin (DOMAIN cache) \cup (DOMAIN file)

\* The number of records of the file that carry the hash h.
RecordsWith(h) ==
  LET arr == FileArray(file, damage)
  IN Cardinality({i \in 1..Len(arr) : HashOf(arr[i]) = h})

FileHashes ==
  LET arr == FileArray(file, damage)
  IN {HashOf(arr[i]) : i \in 1..Len(arr)}

\* The map holds under each key the one entry with that hash.
MapOnePerKey == \A h \in DOMAIN cache : HashOf(cache[h]) = h

\* The file is an array of records with no hash twice.
FileOnePerKey ==
  /\ damage.kind \notin {"invalidJson", "notArray"}
  /\ \A h \in FileHashes : RecordsWith(h) = 1

\* A set replaces: the key's entry is the new one with the current time, the
\* other keys keep their entries, and no key is added but the one set.
SetReplaces ==
  Calls("set") =>
    LET h == hashDiff(output'.arg)
    IN /\ DOMAIN cache' = (DOMAIN cache) \cup {h}
       /\ cache'[h].hash = h
       /\ cache'[h].timestamp = now
       /\ \A k \in DOMAIN cache \ {h} : cache'[k] = cache[k]

\* C30 as stated: after set, get and clear, and after loading any file, one
\* with repeated hashes included, the map and the file hold at most one entry
\* per key, and a set for an existing key replaces its entry and stamps it
\* with the current time.
C30_OneEntryPerKey ==
  /\ [](output # None /\ output.op \in {"set", "clearCache", "load"} /\ diskOk =>
          MapOnePerKey /\ (damage.kind = "record" => FileOnePerKey))
  /\ [][SetReplaces]_vars

\* The file of a load whose records can all be read.
Readable(arr) ==
  /\ damage.kind \notin {"invalidJson", "notArray"}
  /\ \A i \in 1..Len(arr) : arr[i] # JsonNull

\* C30 amended: the map holds at most one entry per key at all times; loading
\* a file with repeated hashes keeps, for each hash, the last of its records
\* that is young enough, and leaves the file as it is, repeated hashes
\* included; the file holds at most one entry per key once the program has
\* written it (a set, or a clear of a non-empty map, with the write
\* succeeding); a set for an existing key replaces its entry and stamps it
\* with the current time.
C30_OneEntryPerKeyOnceWritten ==
  /\ []MapOnePerKey
  /\ [][SetReplaces]_vars
  /\ [][Calls("set") /\ diskOk => file' = cache' /\ damage' = None]_vars
  /\ [][Calls("clearCache") /\ output'.cleared /\ diskOk =>
          file' = EmptyMap /\ damage' = None]_vars
  /\ [][Calls("load") =>
          LET arr == FileArray(file, damage)
              live(i) == /\ "timestamp" \in DOMAIN arr[i]
                         /\ now - arr[i].timestamp < CACHE_MAX_AGE
          IN /\ file' = file
             /\ damage' = damage
             /\ (Readable(arr) =>
                   /\ DOMAIN cache' = {HashOf(arr[i]) : i \in {j \in 1..Len(arr) : live(j)}}
                   /\ \A i \in 1..Len(arr) :
                        (live(i) /\ \A j \in (i + 1)..Len(arr) :
                                      live(j) => HashOf(arr[j]) # HashOf(arr[i]))
                        => cache'[HashOf(arr[i])] = arr[i])]_vars

\* C30 witness: a file with two records of one hash has been loaded: the map
\* has the later record of the two, and the file still has both.
C30_Witness ==
  /\ output # None
  /\ output.op = "load"
  /\ damage.kind = "record"
  /\ ~damage.first
  /\ HashOf(damage.record) \in DOMAIN file
  /\ RecordsWith(HashOf(damage.record)) = 2
  /\ HashOf(damage.record) \in DOMAIN cache
  /\ cache[HashOf(damage.record)] = damage.record

\* The entries of the in-memory map and the records of the file, as sets.
MapEntries(c) == {c[h] : h \in DOMAIN c}
FileEntries(f, dmg) == {FileArray(f, dmg)[i] : i \in 1..Len(FileArray(f, dmg))}

\* A mutation of the map completes in this step: a set, a get that evicts,
\* or a clear of the clear-cache command.
Mutation ==
  \/ Calls("set")
  \/ Calls("get") /\ cache' # cache
  \/ Calls("clearCache") /\ output'.cleared

\* C31: in one process whose writes succeed, after every completed mutation
\* (set, evicting get, clear) the entries of the file are the entries of the
\* map; set has written the file when it returns.
C31_FileEqualsMapAfterMutation ==
  [][Mutation /\ diskOk =>
       /\ damage' = None
       /\ file' = cache'
       /\ FileEntries(file', damage') = MapEntries(cache')]_vars

\* C31 witness: a get has evicted an expired entry while another entry
\* stays, and the file has what the map has.
C31_Witness ==
  /\ diskOk
  /\ output # None
  /\ output.op = "get"
  /\ output.entry # None
  /\ output.value = None
  /\ hashDiff(output.arg) \notin DOMAIN cache
  /\ DOMAIN cache # {}
  /\ FileEntries(file, damage) = MapEntries(cache)

\* The step in which generateCommitMessage stores its result.
Stores == pc = "wait" /\ pc' = "done" /\ exit' \in {"remote", "fallback"}

\* C32: across the invocations of generateCommitMessage an entry, once it
\* exists, keeps its intent, message and timestamp: a step leaves it as it is
\* or removes it, and it is removed only by the lookup of its own key when it
\* has expired or by a clear; the result is stored only under a key that has
\* no entry at that moment, so entries are created, evicted or cleared, never
\* overwritten in place.
C32_EntriesNeverOverwritten ==
  [][/\ \A h \in DOMAIN cache :
          IF h \in DOMAIN cache'
          THEN cache'[h] = cache[h]
          ELSE \/ /\ pc = "idle" /\ pc' = "wait"
                  /\ h = hashDiff(Sha1(diff'))
                  /\ now - cache[h].timestamp > ThirtyDays
                  /\ cache' = [k \in DOMAIN cache \ {h} |-> cache[k]]
               \/ /\ Calls("clearCache")
                  /\ cache' = EmptyMap
     /\ \A h \in (DOMAIN file) \cap (DOMAIN file') : file'[h] = file[h]
     /\ (Stores =>
           /\ hashDiff(Sha1(diff)) \notin DOMAIN cache
           /\ DOMAIN cache' = (DOMAIN cache) \cup {hashDiff(Sha1(diff))}
           /\ cache'[hashDiff(Sha1(diff))].timestamp = now)
     /\ (DOMAIN cache' \ DOMAIN cache # {} => Stores)]_vars

\* C32 witness: the entry of an earlier invocation for this diff expired and
\* was evicted by the lookup, and this invocation has created a new one.
C32_Witness ==
  /\ pc = "done"
  /\ exit \in {"remote", "fallback"}
  /\ prev # None
  /\ prev.diff = diff
  /\ now - prev.ts > ThirtyDays
  /\ hashDiff(Sha1(diff)) \in DOMAIN cache
  /\ cache[hashDiff(Sha1(diff))].timestamp = now

\* C33: loading and lookup agree on expiry at every age, the age of exactly
\* 30 days included: when the constructor loads the file the program wrote,
\* a record is admitted into the map if and only if get, called at that
\* instant on a map holding it, would return it.
C33_LoadAgreesWithGet ==
  [][Calls("load") /\ damage = None =>
       \A h \in DOMAIN file :
         (h \in DOMAIN cache' /\ cache'[h] = file[h]) <=> ~IsExpired(file[h], now)]_vars

\* C33, what does hold: the two agree at every age but 30 days itself.
C33_LoadAgreesWithGetOffTheLimit ==
  [][Calls("load") /\ damage = None =>
       \A h \in DOMAIN file :
         now - file[h].timestamp # ThirtyDays =>
           ((h \in DOMAIN cache' /\ cache'[h] = file[h]) <=> ~IsExpired(file[h], now))]_vars

\* C33, the failing input: a record of exactly 30 days is in the file, the
\* load has left it out of the map, and get would still return it.
C33_AtTheLimit ==
  /\ output # None
  /\ output.op = "load"
  /\ damage = None
  /\ \E h \in DOMAIN file :
       /\ now - file[h].timestamp = ThirtyDays
       /\ h \notin DOMAIN cache
       /\ ~IsExpired(file[h], now)

====
